---- MODULE Spec2Model ----
(***************************************************************************)
(* AutoKR: video -> subtitle pipeline.                                     *)
(*                                                                         *)
(* The model follows src/src/cli.py (the controller, main), the two worker *)
(* processes src/src/worker_transcribe.py and src/src/worker_translate.py, *)
(* src/src/audio_extractor.py, src/src/translator.py and                    *)
(* src/src/subtitle_gen.py.                                                 *)
(*                                                                         *)
(* Files are modelled by their content: absent, partial (created or        *)
(* truncated by a write that did not finish, so not parseable JSON) or     *)
(* complete, together with the run that produced them and the data they    *)
(* hold.  Outcomes of the external collaborators (ffmpeg, the inference    *)
(* models, the file system) are inputs of the actions.                     *)
(***************************************************************************)
EXTENDS Integers, Sequences, FiniteSets, TLC

(* ------------------------------- bounds ------------------------------- *)
MaxRuns == 2        \* sequential invocations of the program in one directory
MaxSegs == 2        \* longest segment list given to translate_segments
MaxTime == 2        \* largest start / end value of a segment
MaxBatch == 3       \* largest batch size given to translate_segments
MaxEnvOps == 1      \* interferences of other processes with temp/ (SpecEnv)
MaxProcs == 2       \* invocations running at the same time (SpecConcurrent)
MaxMillis == 1200   \* largest time (ms) of the dense range given to the formatter

(* --------------------------- program constants ------------------------ *)
CliBatchSize == 16  \* cli.py passes "16" to the translation worker

(* ------------------------------- helpers ------------------------------ *)
Min(a, b) == IF a < b THEN a ELSE b

\* a slice that loses its last element
SliceOffByOne(seq, i, j) == SubSeq(seq, i + 1, Min(j, Len(seq)) - 1)

\* Python slice seq[i:j] for 0 <= i (0-based, j exclusive, clipped to len)
Slice(seq, i, j) == SubSeq(seq, i + 1, Min(j, Len(seq)))

\* Python zip(xs, ys): pairs up to the shorter length
ZipLen(xs, ys) == Min(Len(xs), Len(ys))

(* -------------------------------- text -------------------------------- *)
\* A text is a sequence of characters; " " stands for any whitespace.
Chars == {"a", " "}
Texts == {<<>>} \cup {<<c>> : c \in Chars}

RECURSIVE LStrip(_)
LStrip(s) == IF s # <<>> /\ Head(s) = " " THEN LStrip(Tail(s)) ELSE s

RECURSIVE RStrip(_)
RStrip(s) ==
    IF s # <<>> /\ s[Len(s)] = " " THEN RStrip(SubSeq(s, 1, Len(s) - 1)) ELSE s

\* str.strip()
Strip(s) == RStrip(LStrip(s))

(* ----------------------------- translator ----------------------------- *)
\* The translation model is a black box; three stand-ins that return one
\* text per input text: it upper-cases, it pads with whitespace, it returns
\* a constant.
Models == {"upper", "pad", "const"}

Upper(c) == IF c = "a" THEN "A" ELSE c

ModelDecode(m, text) ==
    CASE m = "upper" -> [k \in 1..Len(text) |-> Upper(text[k])]
      [] m = "pad"   -> <<" ">> \o text \o <<" ">>
      [] OTHER       -> <<"A">>

\* tokenizer + model.generate + batch_decode over one batch of texts
Generate(m, texts) == [k \in 1..Len(texts) |-> ModelDecode(m, texts[k])]

\* the record appended for one (seg, translated) pair
TranslatedRecord(seg, translated) ==
    [start |-> seg.start, end |-> seg.end,
     text |-> Strip(translated), original |-> seg.text]

\* for seg, translated in zip(batch, translated_texts): append(...)
CombineBatch(batch, translated_texts) ==
    [k \in 1..ZipLen(batch, translated_texts) |->
        TranslatedRecord(batch[k], translated_texts[k])]

\* for i in range(0, total, batch_size): ...   (batch_size >= 1)
RECURSIVE TranslateFrom(_, _, _, _)
\* a loop that puts the records of the later batches first
TranslateFromLaterFirst(segments, i, batch_size, m) ==
    IF i >= Len(segments) THEN <<>>
    ELSE LET batch == Slice(segments, i, i + batch_size)
             texts == [k \in 1..Len(batch) |-> batch[k].text]
             translated_texts == Generate(m, texts)
         IN  TranslateFrom(segments, i + batch_size, batch_size, m)
                 \o CombineBatch(batch, translated_texts)

TranslateFrom(segments, i, batch_size, m) ==
    IF i >= Len(segments) THEN <<>>
    ELSE LET batch == Slice(segments, i, i + batch_size)
             texts == [k \in 1..Len(batch) |-> batch[k].text]
             translated_texts == Generate(m, texts)
         IN  CombineBatch(batch, translated_texts)
                 \o TranslateFrom(segments, i + batch_size, batch_size, m)

\* the batches of the loop, one per iteration:
\* batch = segments[i:i + batch_size] for i in range(0, total, batch_size)
RECURSIVE BatchesFrom(_, _, _)
BatchesFrom(segments, i, batch_size) ==
    IF i >= Len(segments) THEN <<>>
    ELSE <<Slice(segments, i, i + batch_size)>>
             \o BatchesFrom(segments, i + batch_size, batch_size)

Batches(segments, batch_size) == BatchesFrom(segments, 0, batch_size)

\* Translator.translate_segments; range(0, total, batch_size) is empty for
\* a negative batch_size, so the loop body never runs
TranslateSegments(segments, batch_size, m) ==
    IF segments = <<>> \/ batch_size < 0 THEN <<>>
    ELSE TranslateFrom(segments, 0, batch_size, m)

\* a stand-in for a model whose generate() raises
ModelRaises(m) == m = "broken"

\* translate_segments raises RuntimeError: range() with step 0, or the
\* model raising on the first batch (an empty list returns before the try)
TranslateSegmentsRaises(segments, batch_size, m) ==
    segments # <<>> /\ (batch_size = 0 \/ ModelRaises(m))

\* the outcome of translate_segments: raised, or the value returned
TranslateSegmentsResult(segments, batch_size, m) ==
    IF TranslateSegmentsRaises(segments, batch_size, m)
      THEN [raised |-> TRUE, value |-> <<>>]
      ELSE [raised |-> FALSE,
            value |-> TranslateSegments(segments, batch_size, m)]

\* the record the fallback builds from one input segment
OriginalRecord(seg) ==
    [start |-> seg.start, end |-> seg.end,
     text |-> seg.text, original |-> seg.text]

\* a fallback without the except clause
TranslateWithFallbackNoCatch(segments, batch_size, m) ==
    TranslateSegmentsResult(segments, batch_size, m)

\* Translator.translate_with_fallback
TranslateWithFallback(segments, batch_size, m) ==
    LET r == TranslateSegmentsResult(segments, batch_size, m)
    IN  IF r.raised
          THEN [raised |-> FALSE,
                value |-> [k \in 1..Len(segments) |->
                              OriginalRecord(segments[k])]]
          ELSE r

(* ----------------------------- timestamps ----------------------------- *)
\* A time is a whole number of microseconds t (the resolution of
\* timedelta); the float the program holds is the double nearest t/10^6.
\* For a whole number of milliseconds m, x = RN(m/1000) = k * 2^(e-52) with
\* e = floor(log2(m/1000)) and k = RN(N/1000), N = m * 2^(52-e); then
\* 1000 * x = m - c * 2^(e-52) with c the centred remainder of N modulo 1000.
UsPerMs == 1000
UsPerSecond == 1000000
MantissaBits == 52

RECURSIVE Pow2(_)
Pow2(n) == IF n = 0 THEN 1 ELSE 2 * Pow2(n - 1)

RECURSIVE Pow2Mod1000(_)
Pow2Mod1000(n) == IF n = 0 THEN 1 ELSE (2 * Pow2Mod1000(n - 1)) % 1000

\* floor(log2(m/1000)) for m >= 1
RECURSIVE ExponentUp(_, _)
ExponentUp(m, e) == IF 1000 * Pow2(e + 1) <= m THEN ExponentUp(m, e + 1) ELSE e

RECURSIVE ExponentDown(_, _)
ExponentDown(m, e) ==
    IF m * Pow2(-e) < 1000 THEN ExponentDown(m, e - 1) ELSE e

ExponentOfSeconds(m) ==
    IF m >= 1000 THEN ExponentUp(m, 0) ELSE ExponentDown(m, 0)

\* the exponent of the doubles just below the integer r >= 1
RECURSIVE ExponentBelowFrom(_, _)
ExponentBelowFrom(r, k) ==
    IF Pow2(k + 1) < r THEN ExponentBelowFrom(r, k + 1) ELSE k

ExponentBelow(r) == IF r = 1 THEN -1 ELSE ExponentBelowFrom(r, 0)

\* the centred remainder of m * 2^(52-e) modulo 1000
CentredRemainder(m) ==
    LET n == ((m % 1000) * Pow2Mod1000(MantissaBits - ExponentOfSeconds(m)))
                 % 1000
    IN  IF n <= 500 THEN n ELSE n - 1000

\* int(y) for the double y = RN(r - c * 2^(e-52)), where r is the whole
\* number of milliseconds the product stands for and x = RN(m/1000):
\* r - 1 when x lies so far below m/1000 that y stays below r
TruncatedProduct(m, r) ==
    IF r = 0 THEN 0
    ELSE LET c == CentredRemainder(m)
             g == ExponentBelow(r) - ExponentOfSeconds(m) - 1
         IN  IF (g >= 0 /\ c > Pow2(g)) \/ (g < 0 /\ c >= 1)
               THEN r - 1 ELSE r

\* millis = int((td.total_seconds() % 1) * 1000)
SrtMillis(t) ==
    IF t % UsPerMs = 0
      THEN TruncatedProduct(t \div UsPerMs, (t \div UsPerMs) % 1000)
      ELSE (t % UsPerSecond) \div UsPerMs

\* SubtitleGenerator._format_timestamp_srt: the four fields of HH:MM:SS,mmm
FormatTimestampSrt(t) ==
    [hours |-> (t \div UsPerSecond) \div 3600,
     minutes |-> ((t \div UsPerSecond) % 3600) \div 60,
     secs |-> (t \div UsPerSecond) % 60,
     millis |-> SrtMillis(t)]

\* SubtitleGenerator._format_timestamp_smi: int(seconds * 1000)
FormatTimestampSmi(t) ==
    IF t % UsPerMs = 0
      THEN TruncatedProduct(t \div UsPerMs, t \div UsPerMs)
      ELSE t \div UsPerMs

\* round(x) of Python for x = t/1000: to the nearest integer, ties to even
RoundMs(t) ==
    LET q == t \div UsPerMs
        r == t % UsPerMs
    IN  IF r > 500 \/ (r = 500 /\ q % 2 = 1) THEN q + 1 ELSE q

(* ------------------------------- files -------------------------------- *)
TempFiles == {"audio", "transcription", "translation"}
Snapshots == {"transcription", "translation"}
Files == TempFiles \cup {"output"}

Absent == [kind |-> "absent", run |-> 0, data |-> <<>>]
Complete(r, d) == [kind |-> "complete", run |-> r, data |-> d]
Partial(r) == [kind |-> "partial", run |-> r, data |-> <<>>]

\* Path.exists()
Exists(f) == f.kind # "absent"

(* ------------------------------- stages ------------------------------- *)
StageOrder == <<"extract", "transcribe", "translate", "serialize", "cleanup">>
Stages == {StageOrder[k] : k \in 1..Len(StageOrder)}
StageIndex(s) == CHOOSE k \in 1..Len(StageOrder) : StageOrder[k] = s

Actors == {"controller", "transcribe_worker", "translate_worker", "other"}

\* what the speech model may return for the audio of the one input video
Seg(s, e, t) == [start |-> s, end |-> e, text |-> t]
TranscriptionResults ==
    { <<>>,
      <<Seg(0, 1, <<"a">>)>>,
      <<Seg(0, 1, <<"a">>), Seg(1, 2, <<>>)>> }

NoIo == [writes |-> <<>>, reads |-> <<>>, deletes |-> <<>>]

VARIABLES
    pc,          \* position of the controller (cli.main)
    run,         \* number of the current invocation
    args,        \* parsed command line of the current invocation
    fs,          \* content of temp/audio.wav, temp/*.json and the output file
    tempDir,     \* whether the directory temp/ exists
    wpc,         \* position of the running worker process ("off" if none)
    wrc,         \* exit status of the worker that exited last
    wdata,       \* the worker's in-memory result
    loaded,      \* translated_segments as loaded by the controller
    exitCode,    \* exit status of the invocation (-1 while it runs)
    started,     \* history: the stages started in this invocation, in order
    stageResult, \* history: outcome of each stage of this invocation
    ioLog,       \* history: who wrote, read and deleted each snapshot
    envOps,      \* number of interferences by other processes so far
    translationFailed,  \* history: the translation model raised in this run
    answer,      \* history: the answer given at the overwrite prompt
    tsegs, tbatch, tmodel, tout, tpc,  \* translate_segments on its own
    ssegs, sformat, sdest, sresult, spc, \* SubtitleGenerator.generate alone
    fseconds, fstamp, fpc, \* _format_timestamp_srt on its own
    cpc, cfile, cheld, cout  \* several invocations running at the same time

pipeVars == <<pc, run, args, fs, tempDir, wpc, wrc, wdata, loaded, exitCode,
              started, stageResult, ioLog, envOps, translationFailed,
              answer>>
transVars == <<tsegs, tbatch, tmodel, tout, tpc>>
serVars == <<ssegs, sformat, sdest, sresult, spc>>
fmtVars == <<fseconds, fstamp, fpc>>
conVars == <<cpc, cfile, cheld, cout>>
vars == <<pipeVars, transVars, serVars, fmtVars, conVars>>

Terminal == {"done", "failed", "cancelled", "rejected"}

NoArgs == [keep_audio |-> FALSE, format |-> "srt"]

PipeInit ==
    /\ pc = "idle"
    /\ run = 0
    /\ args = NoArgs
    /\ fs = [f \in Files |-> Absent]
    /\ tempDir = FALSE
    /\ wpc = "off"
    /\ wrc = 0
    /\ wdata = <<>>
    /\ loaded = <<>>
    /\ exitCode = -1
    /\ started = <<>>
    /\ stageResult = [s \in Stages |-> "none"]
    /\ ioLog = [f \in Snapshots |-> NoIo]
    /\ envOps = 0
    /\ translationFailed = FALSE
    /\ answer = "none"

TransIdle ==
    /\ tsegs = <<>>
    /\ tbatch = 1
    /\ tmodel = "upper"
    /\ tout = <<>>
    /\ tpc = "off"

\* the outcome of a call of the serializer: the exception raised (or
\* "none"), what its message says, and the destination file afterwards
Outcome(error, reason, formats, dest) ==
    [error |-> error, reason |-> reason, formats |-> formats, dest |-> dest]

SerIdle ==
    /\ ssegs = <<>>
    /\ sformat = "srt"
    /\ sdest = Absent
    /\ sresult = Outcome("none", "", {}, Absent)
    /\ spc = "off"

Stamp(h, m, sec, ms) ==
    [hours |-> h, minutes |-> m, secs |-> sec, millis |-> ms]

FmtIdle ==
    /\ fseconds = 0
    /\ fstamp = Stamp(0, 0, 0, 0)
    /\ fpc = "off"

\* the invocations of the concurrent model, each with its own input video
Procs == 1..MaxProcs

ConIdle ==
    /\ cpc = [p \in Procs |-> "off"]
    /\ cfile = [f \in TempFiles |-> 0]
    /\ cheld = [p \in Procs |-> 0]
    /\ cout = [p \in Procs |-> 0]

Init == PipeInit /\ TransIdle /\ SerIdle /\ FmtIdle /\ ConIdle

(* ----------------------- controller: cli.main ------------------------- *)
\* a handler that starts a failed transcription again
ExceptHandlerRetry(stage) ==
    /\ pc' = IF stage = "transcribe" THEN "spawnTranscribe" ELSE "failed"
    /\ exitCode' = IF stage = "transcribe" THEN exitCode ELSE 1
    /\ stageResult' = [stageResult EXCEPT ![stage] = "fail"]

\* a handler that reports the failure but exits with status 0
ExceptHandlerExit0(stage) ==
    /\ pc' = "failed"
    /\ exitCode' = 0
    /\ stageResult' = [stageResult EXCEPT ![stage] = "fail"]

\* except Exception as e: ... sys.exit(1)
ExceptHandler(stage) ==
    /\ pc' = "failed"
    /\ exitCode' = 1
    /\ stageResult' = [stageResult EXCEPT ![stage] = "fail"]

\* a call that ignores the worker's exit status
SubprocessRunNoCheck(rc) == FALSE

\* subprocess.run(cmd, check=True) followed by the returncode test
SubprocessRunRaises(rc) == rc # 0

\* a controller that goes on as soon as the worker has been started
SubprocessRunPolling == wpc # "off"

\* subprocess.run returns only after the child process has exited
SubprocessRunReturned == wpc = "exited"

\* a load that only fails when the file is missing
ReadSnapshotExistsOnly(f) == f.kind = "absent"

\* Path.read_text + json.loads (+ ['segments'] / len) on a snapshot file
ReadSnapshotRaises(f) == f.kind # "complete"

LogRead(f, who) == [ioLog EXCEPT ![f].reads = Append(@, who)]
LogWrite(f, who) == [ioLog EXCEPT ![f].writes = Append(@, who)]
LogDelete(f, who) == [ioLog EXCEPT ![f].deletes = Append(@, who)]

\* what the user may type at the overwrite prompt
Responses == {"y", "Y", "n", ""}

\* str.lower() on the answers of the model
ResponseLower(response) == IF response = "Y" THEN "y" ELSE response

\* a prompt that cancels only on the answer n
DeclinedOnlyOnN(response) == response = "n"

\* if response.lower() != 'y'
Declined(response) == ResponseLower(response) # "y"

\* argument parsing, input check and overwrite prompt (cli.py 94-113)
Main_Start(inputExists, keep, fmt, response) ==
    /\ pc \in Terminal \cup {"idle"}
    /\ run < MaxRuns
    /\ run' = run + 1
    /\ args' = [keep_audio |-> keep, format |-> fmt]
    /\ started' = <<>>
    /\ stageResult' = [s \in Stages |-> "none"]
    /\ ioLog' = [f \in Snapshots |-> NoIo]
    /\ loaded' = <<>>
    /\ wpc' = "off"
    /\ wrc' = 0
    /\ wdata' = <<>>
    /\ IF ~inputExists
         THEN pc' = "rejected" /\ exitCode' = 1
         ELSE IF Exists(fs["output"]) /\ Declined(response)
                THEN pc' = "cancelled" /\ exitCode' = 0
                ELSE pc' = "extract" /\ exitCode' = -1
    /\ answer' = IF inputExists /\ Exists(fs["output"])
                   THEN response ELSE "none"
    /\ translationFailed' = FALSE
    /\ UNCHANGED <<fs, tempDir, envOps, transVars, serVars, fmtVars, conVars>>

\* an extractor that is given the subtitle path as its output file
ExtractTargetOutput == "output"

\* output_file = self.output_dir / f"audio.{audio_format}"
ExtractTarget == "audio"

\* Step 1: AudioExtractor(output_dir="temp").extract(...)
Main_Extract(ffmpeg) ==
    /\ pc = "extract"
    /\ started' = Append(started, "extract")
    /\ tempDir' = TRUE
    /\ CASE ffmpeg = "ok" ->
              /\ fs' = [fs EXCEPT ![ExtractTarget] = Complete(run, <<>>)]
              /\ pc' = "spawnTranscribe"
              /\ stageResult' = [stageResult EXCEPT !["extract"] = "ok"]
              /\ UNCHANGED exitCode
         [] ffmpeg = "fail" ->
              /\ UNCHANGED fs
              /\ ExceptHandler("extract")
         [] OTHER ->
              /\ fs' = [fs EXCEPT ![ExtractTarget] = Partial(run)]
              /\ ExceptHandler("extract")
    /\ UNCHANGED <<run, args, wpc, wrc, wdata, loaded, ioLog, envOps,
                   translationFailed,
                   answer, transVars, serVars, fmtVars, conVars>>

\* Step 2: start the Whisper worker and block in subprocess.run
Main_SpawnTranscribe ==
    /\ pc = "spawnTranscribe"
    /\ started' = Append(started, "transcribe")
    /\ tempDir' = TRUE
    /\ wpc' = "check"
    /\ wdata' = <<>>
    /\ pc' = "waitTranscribe"
    /\ UNCHANGED <<run, args, fs, wrc, loaded, exitCode, stageResult, ioLog,
                   envOps, translationFailed,
                   answer, transVars, serVars, fmtVars, conVars>>

\* subprocess.run returns; returncode test; load temp/transcription.json
Main_AfterTranscribe ==
    /\ pc = "waitTranscribe"
    /\ SubprocessRunReturned
    /\ wpc' = "off"
    /\ IF SubprocessRunRaises(wrc)
         THEN /\ ExceptHandler("transcribe")
              /\ UNCHANGED ioLog
         ELSE /\ ioLog' = LogRead("transcription", "controller")
              /\ IF ReadSnapshotRaises(fs["transcription"])
                   THEN ExceptHandler("transcribe")
                   ELSE /\ pc' = "spawnTranslate"
                        /\ UNCHANGED <<exitCode, stageResult>>
    /\ UNCHANGED <<run, args, fs, tempDir, wrc, wdata, loaded, started,
                   envOps, translationFailed,
                   answer, transVars, serVars, fmtVars, conVars>>

\* Step 3: start the NLLB worker and block in subprocess.run
Main_SpawnTranslate ==
    /\ pc = "spawnTranslate"
    /\ started' = Append(started, "translate")
    /\ wpc' = "check"
    /\ wdata' = <<>>
    /\ pc' = "waitTranslate"
    /\ UNCHANGED <<run, args, fs, tempDir, wrc, loaded, exitCode, stageResult,
                   ioLog, envOps, translationFailed,
                   answer, transVars, serVars, fmtVars, conVars>>

\* subprocess.run returns; returncode test; load temp/translation.json
Main_AfterTranslate ==
    /\ pc = "waitTranslate"
    /\ SubprocessRunReturned
    /\ wpc' = "off"
    /\ IF SubprocessRunRaises(wrc)
         THEN /\ ExceptHandler("translate")
              /\ UNCHANGED <<ioLog, loaded>>
         ELSE /\ ioLog' = LogRead("translation", "controller")
              /\ IF ReadSnapshotRaises(fs["translation"])
                   THEN /\ ExceptHandler("translate")
                        /\ UNCHANGED loaded
                   ELSE /\ loaded' = fs["translation"].data
                        /\ pc' = "serialize"
                        /\ UNCHANGED <<exitCode, stageResult>>
    /\ UNCHANGED <<run, args, fs, tempDir, wrc, wdata, started, envOps,
                   translationFailed,
                   answer, transVars, serVars, fmtVars, conVars>>


\* SubtitleGenerator.generate_srt / generate_smi: the cue made of a segment
Cue(segment) ==
    [start |-> segment.start, end |-> segment.end, text |-> Strip(segment.text)]

Cues(segments) == [k \in 1..Len(segments) |-> Cue(segments[k])]

\* a serializer that accepts the empty list
GenerateRaisesNever(segments) == FALSE

\* if not segments: raise ValueError
GenerateRaises(segments) == segments = <<>>

\* Step 4: SubtitleGenerator().generate(translated_segments, output_path, ...)
Main_Serialize(io) ==
    /\ pc = "serialize"
    /\ started' = Append(started, "serialize")
    /\ IF GenerateRaises(loaded)
         THEN /\ ExceptHandler("serialize")
              /\ UNCHANGED fs
         ELSE CASE io = "ok" ->
                     /\ fs' = [fs EXCEPT !["output"] =
                                 Complete(run, [format |-> args.format,
                                                cues |-> Cues(loaded)])]
                     /\ pc' = "cleanupAudio"
                     /\ stageResult' =
                            [stageResult EXCEPT !["serialize"] = "ok"]
                     /\ UNCHANGED exitCode
                [] io = "fail" ->
                     /\ UNCHANGED fs
                     /\ ExceptHandler("serialize")
                [] OTHER ->
                     /\ fs' = [fs EXCEPT !["output"] = Partial(run)]
                     /\ ExceptHandler("serialize")
    /\ UNCHANGED <<run, args, tempDir, wpc, wrc, wdata, loaded, ioLog, envOps,
                   translationFailed,
                   answer, transVars, serVars, fmtVars, conVars>>

\* the flag read the wrong way round
DeleteAudioInverted(a) == a.keep_audio

\* if not args.keep_audio
DeleteAudio(a) == ~a.keep_audio

\* Step 5a: if not args.keep_audio: extractor.cleanup()
Main_CleanupAudio(unlinkOk) ==
    /\ pc = "cleanupAudio"
    /\ started' = Append(started, "cleanup")
    /\ IF DeleteAudio(args) /\ Exists(fs["audio"])
         THEN IF unlinkOk
                THEN /\ fs' = [fs EXCEPT !["audio"] = Absent]
                     /\ pc' = "cleanupTranscription"
                     /\ UNCHANGED <<exitCode, stageResult>>
                ELSE /\ UNCHANGED fs
                     /\ ExceptHandler("cleanup")
         ELSE /\ pc' = "cleanupTranscription"
              /\ UNCHANGED <<fs, exitCode, stageResult>>
    /\ UNCHANGED <<run, args, tempDir, wpc, wrc, wdata, loaded, ioLog, envOps,
                   translationFailed,
                   answer, transVars, serVars, fmtVars, conVars>>

\* a cleanup that forgets temp/transcription.json
Main_CleanupTranscriptionSkip(unlinkOk) ==
    /\ pc = "cleanupTranscription"
    /\ pc' = "cleanupTranslation"
    /\ UNCHANGED <<run, args, fs, tempDir, wpc, wrc, wdata, loaded, exitCode,
                   started, stageResult, ioLog, envOps, translationFailed,
                   answer, transVars, serVars, fmtVars, conVars>>

\* Step 5b: if temp_transcription.exists(): temp_transcription.unlink()
Main_CleanupTranscription(unlinkOk) ==
    /\ pc = "cleanupTranscription"
    /\ IF Exists(fs["transcription"])
         THEN IF unlinkOk
                THEN /\ fs' = [fs EXCEPT !["transcription"] = Absent]
                     /\ ioLog' = LogDelete("transcription", "controller")
                     /\ pc' = "cleanupTranslation"
                     /\ UNCHANGED <<exitCode, stageResult>>
                ELSE /\ UNCHANGED <<fs, ioLog>>
                     /\ ExceptHandler("cleanup")
         ELSE /\ pc' = "cleanupTranslation"
              /\ UNCHANGED <<fs, ioLog, exitCode, stageResult>>
    /\ UNCHANGED <<run, args, tempDir, wpc, wrc, wdata, loaded, started,
                   envOps, translationFailed,
                   answer, transVars, serVars, fmtVars, conVars>>

\* Step 5c: if temp_translation.exists(): temp_translation.unlink();
\* then main returns and the process exits with status 0
Main_CleanupTranslation(unlinkOk) ==
    /\ pc = "cleanupTranslation"
    /\ IF Exists(fs["translation"]) /\ ~unlinkOk
         THEN /\ UNCHANGED <<fs, ioLog>>
              /\ ExceptHandler("cleanup")
         ELSE /\ fs' = [fs EXCEPT !["translation"] = Absent]
              /\ ioLog' = IF Exists(fs["translation"])
                            THEN LogDelete("translation", "controller")
                            ELSE ioLog
              /\ pc' = "done"
              /\ exitCode' = 0
              /\ stageResult' = [stageResult EXCEPT !["cleanup"] = "ok"]
    /\ UNCHANGED <<run, args, tempDir, wpc, wrc, wdata, loaded, started,
                   envOps, translationFailed,
                   answer, transVars, serVars, fmtVars, conVars>>

(* ------------------ worker processes: common exit --------------------- *)
\* sys.exit(rc) of a worker; the stage's outcome is its exit status
WorkerExit(stage, rc) ==
    /\ wpc' = "exited"
    /\ wrc' = rc
    /\ stageResult' = [stageResult EXCEPT ![stage] =
                          IF rc = 0 THEN "ok" ELSE "fail"]

(* --------------- worker_transcribe.main (Whisper worker) -------------- *)
\* input check and mkdir of the output directory
Transcribe_Check ==
    /\ pc = "waitTranscribe"
    /\ wpc = "check"
    /\ IF ~Exists(fs["audio"])
         THEN /\ WorkerExit("transcribe", 1)
              /\ UNCHANGED tempDir
         ELSE /\ wpc' = "compute"
              /\ tempDir' = TRUE
              /\ UNCHANGED <<wrc, stageResult>>
    /\ UNCHANGED <<pc, run, args, fs, wdata, loaded, exitCode, started, ioLog,
                   envOps, translationFailed,
                   answer, transVars, serVars, fmtVars, conVars>>

\* Transcriber(...) and transcribe_with_full_text(...)
Transcribe_Compute(ok, result) ==
    /\ pc = "waitTranscribe"
    /\ wpc = "compute"
    /\ IF ok
         THEN /\ wdata' = result
              /\ wpc' = "write"
              /\ UNCHANGED <<wrc, stageResult>>
         ELSE /\ WorkerExit("transcribe", 1)
              /\ UNCHANGED wdata
    /\ UNCHANGED <<pc, run, args, fs, tempDir, loaded, exitCode, started,
                   ioLog, envOps, translationFailed,
                   answer, transVars, serVars, fmtVars, conVars>>

\* a worker that goes on without writing its result
Transcribe_WriteSkipped(io) ==
    /\ pc = "waitTranscribe"
    /\ wpc = "write"
    /\ wpc' = "finish"
    /\ UNCHANGED <<pc, run, args, fs, tempDir, wrc, wdata, loaded, exitCode,
                   started, stageResult, ioLog, envOps, translationFailed,
                   answer, transVars, serVars, fmtVars, conVars>>

\* output_path.write_text(json.dumps(output_data, ...))
Transcribe_Write(io) ==
    /\ pc = "waitTranscribe"
    /\ wpc = "write"
    /\ CASE io = "ok" ->
              /\ fs' = [fs EXCEPT !["transcription"] = Complete(run, wdata)]
              /\ ioLog' = LogWrite("transcription", "transcribe_worker")
              /\ wpc' = "finish"
              /\ UNCHANGED <<wrc, stageResult>>
         [] io = "fail" ->
              /\ UNCHANGED <<fs, ioLog>>
              /\ WorkerExit("transcribe", 1)
         [] OTHER ->
              /\ fs' = [fs EXCEPT !["transcription"] = Partial(run)]
              /\ ioLog' = LogWrite("transcription", "transcribe_worker")
              /\ WorkerExit("transcribe", 1)
    /\ UNCHANGED <<pc, run, args, tempDir, wdata, loaded, exitCode, started,
                   envOps, translationFailed,
                   answer, transVars, serVars, fmtVars, conVars>>

\* transcriber.clear_cache(); sys.exit(0)
Transcribe_Finish(clearOk) ==
    /\ pc = "waitTranscribe"
    /\ wpc = "finish"
    /\ WorkerExit("transcribe", IF clearOk THEN 0 ELSE 1)
    /\ UNCHANGED <<pc, run, args, fs, tempDir, wdata, loaded, exitCode,
                   started, ioLog, envOps, translationFailed,
                   answer, transVars, serVars, fmtVars, conVars>>

(* ---------------- worker_translate.main (NLLB worker) ----------------- *)
\* input check and mkdir of the output directory
Translate_Check ==
    /\ pc = "waitTranslate"
    /\ wpc = "check"
    /\ IF ~Exists(fs["transcription"])
         THEN /\ WorkerExit("translate", 1)
              /\ UNCHANGED tempDir
         ELSE /\ wpc' = "load"
              /\ tempDir' = TRUE
              /\ UNCHANGED <<wrc, stageResult>>
    /\ UNCHANGED <<pc, run, args, fs, wdata, loaded, exitCode, started, ioLog,
                   envOps, translationFailed,
                   answer, transVars, serVars, fmtVars, conVars>>

\* json.loads(input_file.read_text()); segments = input_data.get("segments")
Translate_Load ==
    /\ pc = "waitTranslate"
    /\ wpc = "load"
    /\ ioLog' = LogRead("transcription", "translate_worker")
    /\ IF ReadSnapshotRaises(fs["transcription"])
         THEN /\ WorkerExit("translate", 1)
              /\ UNCHANGED wdata
         ELSE /\ wdata' = fs["transcription"].data
              /\ wpc' = IF fs["transcription"].data = <<>>
                          THEN "writeEmpty" ELSE "compute"
              /\ UNCHANGED <<wrc, stageResult>>
    /\ UNCHANGED <<pc, run, args, fs, tempDir, loaded, exitCode, started,
                   envOps, translationFailed,
                   answer, transVars, serVars, fmtVars, conVars>>

\* Translator(...) and translate_segments(segments, batch_size=batch_size)
Translate_Compute(ok, m) ==
    /\ pc = "waitTranslate"
    /\ wpc = "compute"
    /\ IF ok
         THEN /\ wdata' = TranslateSegments(wdata, CliBatchSize, m)
              /\ wpc' = "write"
              /\ UNCHANGED <<wrc, stageResult>>
         ELSE /\ WorkerExit("translate", 1)
              /\ UNCHANGED wdata
    /\ translationFailed' = (translationFailed \/ ~ok)
    /\ UNCHANGED <<pc, run, args, fs, tempDir, loaded, exitCode, started,
                   ioLog, envOps, answer, transVars, serVars, fmtVars, conVars>>

\* output_path.write_text(json.dumps(...)): of [] followed by sys.exit(0),
\* or of the translated segments
Translate_Write(io) ==
    /\ pc = "waitTranslate"
    /\ wpc \in {"write", "writeEmpty"}
    /\ CASE io = "ok" ->
              /\ fs' = [fs EXCEPT !["translation"] = Complete(run, wdata)]
              /\ ioLog' = LogWrite("translation", "translate_worker")
              /\ IF wpc = "writeEmpty"
                   THEN WorkerExit("translate", 0)
                   ELSE wpc' = "finish" /\ UNCHANGED <<wrc, stageResult>>
         [] io = "fail" ->
              /\ UNCHANGED <<fs, ioLog>>
              /\ WorkerExit("translate", 1)
         [] OTHER ->
              /\ fs' = [fs EXCEPT !["translation"] = Partial(run)]
              /\ ioLog' = LogWrite("translation", "translate_worker")
              /\ WorkerExit("translate", 1)
    /\ UNCHANGED <<pc, run, args, tempDir, wdata, loaded, exitCode, started,
                   envOps, translationFailed,
                   answer, transVars, serVars, fmtVars, conVars>>

\* translator.clear_cache(); sys.exit(0)
Translate_Finish(clearOk) ==
    /\ pc = "waitTranslate"
    /\ wpc = "finish"
    /\ WorkerExit("translate", IF clearOk THEN 0 ELSE 1)
    /\ UNCHANGED <<pc, run, args, fs, tempDir, wdata, loaded, exitCode,
                   started, ioLog, envOps, translationFailed,
                   answer, transVars, serVars, fmtVars, conVars>>

(* --------------------------- specifications --------------------------- *)
IoOutcomes == {"ok", "fail", "partial"}

Next ==
    \/ \E i \in BOOLEAN, k \in BOOLEAN, f \in {"srt", "smi"},
          r \in Responses : Main_Start(i, k, f, r)
    \/ \E o \in IoOutcomes : Main_Extract(o)
    \/ Main_SpawnTranscribe
    \/ Transcribe_Check
    \/ \E ok \in BOOLEAN, res \in TranscriptionResults :
          Transcribe_Compute(ok, res)
    \/ \E o \in IoOutcomes : Transcribe_Write(o)
    \/ \E ok \in BOOLEAN : Transcribe_Finish(ok)
    \/ Main_AfterTranscribe
    \/ Main_SpawnTranslate
    \/ Translate_Check
    \/ Translate_Load
    \/ \E ok \in BOOLEAN, m \in Models : Translate_Compute(ok, m)
    \/ \E o \in IoOutcomes : Translate_Write(o)
    \/ \E ok \in BOOLEAN : Translate_Finish(ok)
    \/ Main_AfterTranslate
    \/ \E o \in IoOutcomes : Main_Serialize(o)
    \/ \E ok \in BOOLEAN : Main_CleanupAudio(ok)
    \/ \E ok \in BOOLEAN : Main_CleanupTranscription(ok)
    \/ \E ok \in BOOLEAN : Main_CleanupTranslation(ok)

Spec == Init /\ [][Next]_vars

TypeOK ==
    /\ pc \in Terminal \cup {"idle", "extract", "spawnTranscribe",
                "waitTranscribe", "spawnTranslate", "waitTranslate",
                "serialize", "cleanupAudio", "cleanupTranscription",
                "cleanupTranslation"}
    /\ run \in 0..MaxRuns
    /\ exitCode \in {-1, 0, 1}
    /\ wrc \in {0, 1}
    /\ \A f \in Files : fs[f].kind \in {"absent", "partial", "complete"}


(* ------------- other processes sharing the directory temp/ ------------ *)
\* temp/ is a fixed path relative to the working directory, so another
\* process can remove or truncate a temporary file while a run is going on
Env_Interfere(f, how) ==
    /\ pc \notin Terminal \cup {"idle"}
    /\ envOps < MaxEnvOps
    /\ Exists(fs[f])
    /\ envOps' = envOps + 1
    /\ fs' = [fs EXCEPT ![f] = IF how = "delete" THEN Absent ELSE Partial(0)]
    /\ ioLog' = IF f \in Snapshots
                  THEN IF how = "delete" THEN LogDelete(f, "other")
                                         ELSE LogWrite(f, "other")
                  ELSE ioLog
    /\ UNCHANGED <<pc, run, args, tempDir, wpc, wrc, wdata, loaded, exitCode,
                   started, stageResult, translationFailed,
                   answer, transVars, serVars, fmtVars, conVars>>

NextEnv ==
    \/ Next
    \/ \E f \in TempFiles, how \in {"delete", "truncate"} : Env_Interfere(f, how)

SpecEnv == Init /\ [][NextEnv]_vars

(* ------------------- translate_segments on its own -------------------- *)
SegDomain ==
    {Seg(s, e, t) : s \in 0..MaxTime, e \in 0..MaxTime, t \in Texts}
SegLists == UNION {[1..n -> SegDomain] : n \in 0..MaxSegs}

\* a list longer than every batch size, with pairwise different segments
LongSegments ==
    << Seg(0, 1, <<"a">>), Seg(1, 2, <<" ">>), Seg(2, 3, <<"a">>),
       Seg(3, 4, <<>>), Seg(4, 5, <<"a">>) >>

InitTranslate ==
    /\ PipeInit
    /\ ConIdle
    /\ SerIdle
    /\ FmtIdle
    /\ tsegs \in SegLists \cup {LongSegments}
    /\ tbatch \in 1..MaxBatch
    /\ tmodel \in Models
    /\ tout = <<>>
    /\ tpc = "call"

\* translator.translate_segments(segments, batch_size=batch_size)
Translate_Call ==
    /\ tpc = "call"
    /\ tout' = TranslateSegments(tsegs, tbatch, tmodel)
    /\ tpc' = "returned"
    /\ UNCHANGED <<tsegs, tbatch, tmodel, pipeVars, serVars, fmtVars, conVars>>

NextTranslate == Translate_Call

SpecTranslate == InitTranslate /\ [][NextTranslate]_vars

(* ------------------------ subtitle serializer ------------------------- *)
Line(kind, v) == [kind |-> kind, v |-> v]
BlankLine == Line("text", <<>>)

\* all(key in segment for key in ["start", "end", "text"])
HasFields(segment) == {"start", "end", "text"} \subseteq DOMAIN segment

\* the first segment (1-based) that lacks a field, 0 if there is none
FirstInvalid(segments) ==
    IF \A k \in 1..Len(segments) : HasFields(segments[k]) THEN 0
    ELSE CHOOSE k \in 1..Len(segments) :
            /\ ~HasFields(segments[k])
            /\ \A j \in 1..(k - 1) : HasFields(segments[j])

\* a block numbered from 0
SrtBlockFromZero(idx, segment) ==
    << Line("index", idx - 1),
       Line("timing", [start |-> FormatTimestampSrt(segment.start),
                       end |-> FormatTimestampSrt(segment.end)]),
       Line("text", Strip(segment.text)),
       BlankLine >>

\* the four lines appended for one segment: number, timing, text, blank
SrtBlock(idx, segment) ==
    << Line("index", idx),
       Line("timing", [start |-> FormatTimestampSrt(segment.start),
                       end |-> FormatTimestampSrt(segment.end)]),
       Line("text", Strip(segment.text)),
       BlankLine >>

\* for idx, segment in enumerate(segments, start=1): ...
RECURSIVE SrtContentFrom(_, _)
SrtContentFrom(segments, idx) ==
    IF idx > Len(segments) THEN <<>>
    ELSE SrtBlock(idx, segments[idx]) \o SrtContentFrom(segments, idx + 1)

SrtContent(segments) == SrtContentFrom(segments, 1)

SmiHeaderLines == 14
SmiFooterLines == 2
SmiHeader == [k \in 1..SmiHeaderLines |-> Line("header", k)]
SmiFooter == [k \in 1..SmiFooterLines |-> Line("footer", k)]

\* the seven lines appended for one segment
SmiBlock(segment) ==
    << Line("sync", FormatTimestampSmi(segment.start)),
       Line("p_open", "KRCC"),
       Line("text", Strip(segment.text)),
       Line("p_close", "KRCC"),
       Line("sync", FormatTimestampSmi(segment.end)),
       Line("placeholder", "nbsp"),
       BlankLine >>

RECURSIVE SmiBodyFrom(_, _)
SmiBodyFrom(segments, idx) ==
    IF idx > Len(segments) THEN <<>>
    ELSE SmiBlock(segments[idx]) \o SmiBodyFrom(segments, idx + 1)

SmiContent(segments) == SmiHeader \o SmiBodyFrom(segments, 1) \o SmiFooter

\* mkdir + output_path.write_text(...) inside the try block: the write
\* succeeds, fails before the file is opened, or fails part-way
WriteText(content, dest, io) ==
    CASE io = "ok" -> Outcome("none", "", {}, Complete(0, content))
      [] io = "fail" -> Outcome("IOError", "write", {}, dest)
      [] OTHER -> Outcome("IOError", "write", {}, Partial(0))

\* a body that writes the cues one by one, up to the first invalid record
GenerateBodyWriteAsYouGo(kind, segments, dest, io) ==
    IF FirstInvalid(segments) # 0
      THEN Outcome("IOError", "fields", {},
                   Complete(0, [format |-> kind,
                                lines |-> SrtContent(SubSeq(segments, 1,
                                              FirstInvalid(segments) - 1))]))
      ELSE WriteText([format |-> kind,
                      lines |-> IF kind = "srt" THEN SrtContent(segments)
                                ELSE SmiContent(segments)],
                     dest, io)

\* the body of generate_srt / generate_smi after the empty check: an
\* exception of the loop or of the write is re-raised as IOError
GenerateBody(kind, segments, dest, io) ==
    IF FirstInvalid(segments) # 0
      THEN Outcome("IOError", "fields", {}, dest)
      ELSE WriteText([format |-> kind,
                      lines |-> IF kind = "srt" THEN SrtContent(segments)
                                ELSE SmiContent(segments)],
                     dest, io)

\* a generate_smi without the test of the empty list
GenerateSmiNoEmptyCheck(segments, dest, io) ==
    GenerateBody("smi", segments, dest, io)

\* SubtitleGenerator.generate_srt
GenerateSrt(segments, dest, io) ==
    IF segments = <<>> THEN Outcome("ValueError", "empty", {}, dest)
    ELSE GenerateBody("srt", segments, dest, io)

\* SubtitleGenerator.generate_smi
GenerateSmi(segments, dest, io) ==
    IF segments = <<>> THEN Outcome("ValueError", "empty", {}, dest)
    ELSE GenerateBody("smi", segments, dest, io)

\* str.lower() on the format identifiers of the model
Lower(format) ==
    CASE format = "SRT" -> "srt"
      [] OTHER -> format

SupportedFormats == {"srt", "smi"}

\* a dispatcher that takes every unknown format for srt
SubtitleGenerateDefaultSrt(segments, dest, format, io) ==
    IF Lower(format) = "smi" THEN GenerateSmi(segments, dest, io)
    ELSE GenerateSrt(segments, dest, io)

\* SubtitleGenerator.generate
SubtitleGenerate(segments, dest, format, io) ==
    CASE Lower(format) = "srt" -> GenerateSrt(segments, dest, io)
      [] Lower(format) = "smi" -> GenerateSmi(segments, dest, io)
      [] OTHER -> Outcome("ValueError", "unsupported", SupportedFormats, dest)

(* ---------------- SubtitleGenerator.generate on its own --------------- *)
\* times in microseconds: 0 s, 0.0007 s, 1.2 s, 4.02 s
SerTimes == {0, 700, 1200000, 4020000}
SerTexts == {<<"a">>, <<" ">>}
SerFormats == {"srt", "smi", "SRT", "xml"}

\* records that lack a required field
MalformedSegments == {[start |-> 0, end |-> 700], [end |-> 700, text |-> <<"a">>]}

SerSegDomain ==
    {Seg(b, e, t) : b \in SerTimes, e \in SerTimes, t \in SerTexts}
        \cup MalformedSegments

\* the three translated segments of the end-to-end scenario
ScenarioSegments ==
    << [start |-> 0, end |-> 1200000, text |-> <<"A">>, original |-> <<"a">>],
       [start |-> 1200000, end |-> 2500000, text |-> <<"B">>,
        original |-> <<"b">>],
       [start |-> 2500000, end |-> 4000000, text |-> <<"C">>,
        original |-> <<"c">>] >>

SerLists ==
    UNION {[1..n -> SerSegDomain] : n \in 0..MaxSegs} \cup {ScenarioSegments}

\* a subtitle file that is already at the destination before the call
OldFile == Complete(0, [format |-> "old", lines |-> <<>>])

InitSerialize ==
    /\ PipeInit
    /\ ConIdle
    /\ TransIdle
    /\ FmtIdle
    /\ ssegs \in SerLists
    /\ sformat \in SerFormats
    /\ sdest \in {Absent, OldFile}
    /\ sresult = Outcome("none", "", {}, Absent)
    /\ spc = "call"

\* generator.generate(segments, output_path, format=format)
Serialize_Call(io) ==
    /\ spc = "call"
    /\ sresult' = SubtitleGenerate(ssegs, sdest, sformat, io)
    /\ spc' = IF sresult'.error = "none" THEN "returned" ELSE "raised"
    /\ UNCHANGED <<ssegs, sformat, sdest, pipeVars, transVars, fmtVars, conVars>>

NextSerialize == \E io \in IoOutcomes : Serialize_Call(io)

SpecSerialize == InitSerialize /\ [][NextSerialize]_vars

(* ------------- translate_segments with any batch size ----------------- *)
\* worker_translate takes batch_size = int(sys.argv[3]) as it comes
BatchSizes == (-MaxBatch)..MaxBatch

InitAnyBatch ==
    /\ PipeInit
    /\ ConIdle
    /\ SerIdle
    /\ FmtIdle
    /\ tsegs \in SegLists
    /\ tbatch \in BatchSizes
    /\ tmodel \in Models \cup {"broken"}
    /\ tout = <<>>
    /\ tpc = "call"

\* translator.translate_segments(segments, batch_size=batch_size): raises
\* (the worker exits 1) or returns (the worker writes the result, exits 0)
AnyBatch_Call ==
    /\ tpc = "call"
    /\ LET r == TranslateSegmentsResult(tsegs, tbatch, tmodel)
       IN  /\ tout' = r.value
           /\ tpc' = IF r.raised THEN "raised" ELSE "returned"
    /\ UNCHANGED <<tsegs, tbatch, tmodel, pipeVars, serVars, fmtVars, conVars>>

NextAnyBatch == AnyBatch_Call

SpecAnyBatch == InitAnyBatch /\ [][NextAnyBatch]_vars

(* ----------------- translate_with_fallback on its own ----------------- *)
InitFallback ==
    /\ PipeInit
    /\ ConIdle
    /\ SerIdle
    /\ FmtIdle
    /\ tsegs \in SegLists
    /\ tbatch \in 0..MaxBatch
    /\ tmodel \in Models \cup {"broken"}
    /\ tout = <<>>
    /\ tpc = "call"

\* translator.translate_with_fallback(segments, batch_size=batch_size)
Fallback_Call ==
    /\ tpc = "call"
    /\ LET r == TranslateWithFallback(tsegs, tbatch, tmodel)
       IN  /\ tout' = r.value
           /\ tpc' = IF r.raised THEN "raised" ELSE "returned"
    /\ UNCHANGED <<tsegs, tbatch, tmodel, pipeVars, serVars, fmtVars, conVars>>

NextFallback == Fallback_Call

SpecFallback == InitFallback /\ [][NextFallback]_vars

(* ------------------ _format_timestamp_srt on its own ------------------ *)
\* The argument is a float of seconds; the model gives it in tenths of a
\* microsecond so that values between two microseconds occur.
TenthsPerUs == 10
TenthsPerMs == 10000

\* td = timedelta(seconds=seconds): rounded to the nearest microsecond
\* (the arguments of the model never lie half-way)
TimedeltaMicroseconds(seconds) == (seconds + 5) \div TenthsPerUs

\* SubtitleGenerator._format_timestamp_srt(seconds)
FormatTimestampSrtOfSeconds(seconds) ==
    FormatTimestampSrt(TimedeltaMicroseconds(seconds))

\* arguments: every millisecond up to MaxMillis and a few longer times,
\* each shifted by whole microseconds and by fractions of a microsecond
LongMillis == {59999, 61200, 200000}
MicroShifts == {0, 1, 500, 999}
TenthShifts == {-4, -3, 0, 3, 4}
SecondsArgs ==
    {a \in {ms * TenthsPerMs + us * TenthsPerUs + d :
               ms \in (0..MaxMillis) \cup LongMillis,
               us \in MicroShifts, d \in TenthShifts} : a >= 0}

InitFormat ==
    /\ PipeInit
    /\ ConIdle
    /\ TransIdle
    /\ SerIdle
    /\ fseconds \in SecondsArgs
    /\ fstamp = Stamp(0, 0, 0, 0)
    /\ fpc = "call"

Format_Call ==
    /\ fpc = "call"
    /\ fstamp' = FormatTimestampSrtOfSeconds(fseconds)
    /\ fpc' = "returned"
    /\ UNCHANGED <<fseconds, pipeVars, transVars, serVars, conVars>>

NextFormat == Format_Call

SpecFormat == InitFormat /\ [][NextFormat]_vars

(* ------------- invocations running at the same time ------------------- *)
\* Every invocation uses the same relative paths temp/audio.wav,
\* temp/transcription.json and temp/translation.json.  The content of a
\* file is represented by the invocation whose input video it derives from
\* (0: the file does not exist).  One action is one step of cli.main; the
\* blocking call of a worker is part of the step of its stage.
InitConcurrent ==
    /\ PipeInit
    /\ TransIdle
    /\ SerIdle
    /\ FmtIdle
    /\ cpc = [p \in Procs |-> "extract"]
    /\ cfile = [f \in TempFiles |-> 0]
    /\ cheld = [p \in Procs |-> 0]
    /\ cout = [p \in Procs |-> 0]

\* Step 1: ffmpeg -y writes temp/audio.wav from the invocation's own video
Con_Extract(p, ok) ==
    /\ cpc[p] = "extract"
    /\ IF ok
         THEN /\ cfile' = [cfile EXCEPT !["audio"] = p]
              /\ cpc' = [cpc EXCEPT ![p] = "transcribe"]
         ELSE /\ cpc' = [cpc EXCEPT ![p] = "failed"]
              /\ UNCHANGED cfile
    /\ UNCHANGED <<cheld, cout, pipeVars, transVars, serVars, fmtVars>>

\* Step 2: the Whisper worker reads temp/audio.wav and writes
\* temp/transcription.json; the controller loads it
Con_Transcribe(p) ==
    /\ cpc[p] = "transcribe"
    /\ IF cfile["audio"] = 0
         THEN /\ cpc' = [cpc EXCEPT ![p] = "failed"]
              /\ UNCHANGED cfile
         ELSE /\ cfile' = [cfile EXCEPT !["transcription"] = cfile["audio"]]
              /\ cpc' = [cpc EXCEPT ![p] = "translate"]
    /\ UNCHANGED <<cheld, cout, pipeVars, transVars, serVars, fmtVars>>

\* Step 3: the NLLB worker reads temp/transcription.json and writes
\* temp/translation.json
Con_Translate(p) ==
    /\ cpc[p] = "translate"
    /\ IF cfile["transcription"] = 0
         THEN /\ cpc' = [cpc EXCEPT ![p] = "failed"]
              /\ UNCHANGED cfile
         ELSE /\ cfile' = [cfile EXCEPT
                             !["translation"] = cfile["transcription"]]
              /\ cpc' = [cpc EXCEPT ![p] = "load"]
    /\ UNCHANGED <<cheld, cout, pipeVars, transVars, serVars, fmtVars>>

\* translated_segments = json.loads(temp_translation.read_text(...))
Con_LoadTranslation(p) ==
    /\ cpc[p] = "load"
    /\ IF cfile["translation"] = 0
         THEN /\ cpc' = [cpc EXCEPT ![p] = "failed"]
              /\ UNCHANGED cheld
         ELSE /\ cheld' = [cheld EXCEPT ![p] = cfile["translation"]]
              /\ cpc' = [cpc EXCEPT ![p] = "serialize"]
    /\ UNCHANGED <<cfile, cout, pipeVars, transVars, serVars, fmtVars>>

\* Step 4: the subtitle file of the invocation is written from
\* translated_segments
Con_Serialize(p) ==
    /\ cpc[p] = "serialize"
    /\ cout' = [cout EXCEPT ![p] = cheld[p]]
    /\ cpc' = [cpc EXCEPT ![p] = "cleanup"]
    /\ UNCHANGED <<cfile, cheld, pipeVars, transVars, serVars, fmtVars>>

\* Step 5: extractor.cleanup() and the unlink of both snapshots
Con_Cleanup(p) ==
    /\ cpc[p] = "cleanup"
    /\ cfile' = [f \in TempFiles |-> 0]
    /\ cpc' = [cpc EXCEPT ![p] = "done"]
    /\ UNCHANGED <<cheld, cout, pipeVars, transVars, serVars, fmtVars>>

NextConcurrent ==
    \E p \in Procs :
        \/ \E ok \in BOOLEAN : Con_Extract(p, ok)
        \/ Con_Transcribe(p)
        \/ Con_Translate(p)
        \/ Con_LoadTranslation(p)
        \/ Con_Serialize(p)
        \/ Con_Cleanup(p)

SpecConcurrent == InitConcurrent /\ [][NextConcurrent]_vars

(* ============================== claims ================================ *)

\* C1: within one run the stages start only in the order extract,
\* transcribe, translate, serialize, cleanup, and each at most once: the
\* stages started so far are always a prefix of that order.
C1_StagesInOrderOnce ==
    /\ Len(started) <= Len(StageOrder)
    /\ \A k \in 1..Len(started) : started[k] = StageOrder[k]

C1_Witness == pc = "done" /\ run = 2 /\ started = StageOrder

\* C2: once a step has failed no later step is started, and no subtitle
\* file is written by a run whose extraction, transcription or translation
\* failed.
C2_FailureStopsLaterSteps ==
    \A s \in Stages :
        stageResult[s] = "fail" =>
            /\ \A k \in 1..Len(started) :
                  StageIndex(started[k]) <= StageIndex(s)
            /\ s \in {"extract", "transcribe", "translate"} =>
                  ~(Exists(fs["output"]) /\ fs["output"].run = run)

C2_Witness ==
    /\ pc = "failed"
    /\ stageResult["transcribe"] = "fail"
    /\ Exists(fs["transcription"]) /\ fs["transcription"].run = run

\* C3: the process exits 0 when every step completed and 1 when a stage
\* failed; a run in which a stage failed never exits 0.
C3_ExitStatus ==
    /\ (\A s \in Stages : stageResult[s] = "ok") => exitCode = 0
    /\ (pc \in Terminal /\ \E s \in Stages : stageResult[s] = "fail")
          => exitCode = 1
    /\ exitCode = 0 => \A s \in Stages : stageResult[s] # "fail"

C3_Witness ==
    /\ pc = "failed" /\ exitCode = 1
    /\ stageResult["translate"] = "ok" /\ stageResult["serialize"] = "fail"

\* C4 (as claimed): when a stage fails, the temporary files created by the
\* steps of this run that had completed are deleted before the process
\* exits.
C4_FailedRunCleansUp ==
    (pc = "failed" /\ stageResult["cleanup"] # "fail") =>
        \A f \in TempFiles : ~(Exists(fs[f]) /\ fs[f].run = run)

\* C5: after a run that completes, neither snapshot exists and the
\* temporary audio exists if and only if --keep-audio was given; this holds
\* after every run of a sequence of runs.
C5_SuccessLeavesNoTemp ==
    pc = "done" =>
        /\ ~Exists(fs["transcription"])
        /\ ~Exists(fs["translation"])
        /\ Exists(fs["audio"]) <=> args.keep_audio

C5_Witness ==
    /\ pc = "done" /\ run = 2 /\ ~args.keep_audio
    /\ \A f \in TempFiles : ~Exists(fs[f])

\* C6 (as claimed): once the subtitle file has been written, a failing
\* cleanup action does not fail the run: the run ends in Done with status 0.
C6_CleanupFailureNotEscalated ==
    (pc \in Terminal /\ stageResult["serialize"] = "ok") =>
        (pc = "done" /\ exitCode = 0)

\* C7: when the controller resumes after a worker, a non-zero exit status
\* or a missing or invalid snapshot fails the run and the next step is not
\* started.
C7_BadWorkerResultFailsRun ==
    [][ /\ (pc = "waitTranscribe" /\ wpc = "exited" /\ pc' # pc
              /\ (wrc # 0 \/ fs["transcription"].kind # "complete"))
            => (pc' = "failed" /\ exitCode' = 1 /\ started' = started)
        /\ (pc = "waitTranslate" /\ wpc = "exited" /\ pc' # pc
              /\ (wrc # 0 \/ fs["translation"].kind # "complete"))
            => (pc' = "failed" /\ exitCode' = 1 /\ started' = started)
      ]_vars

C7_Witness ==
    /\ pc = "failed" /\ wrc = 0
    /\ stageResult["translate"] = "fail"
    /\ fs["translation"].kind = "partial"

\* the snapshot a stage's worker produces
OutputOf(stage) ==
    IF stage = "transcribe" THEN "transcription" ELSE "translation"

\* C8 (as claimed): a worker exits 0 only when its complete snapshot is at
\* its output path, and a worker that exits non-zero leaves no partially
\* written snapshot there.
C8_WorkerExitSnapshot ==
    wpc = "exited" =>
        LET f == fs[OutputOf(started[Len(started)])]
        IN  /\ wrc = 0 => (f.kind = "complete" /\ f.run = run)
            /\ wrc # 0 => f.kind # "partial"

Producer(f) ==
    IF f = "transcription" THEN "transcribe_worker" ELSE "translate_worker"
Consumer(f) ==
    IF f = "transcription" THEN "translate_worker" ELSE "controller"

\* written at most once and only by the producing worker, deleted at most
\* once, only by the controller and only during cleanup
C9_WritesAndDeletes ==
    \A f \in Snapshots :
        /\ Len(ioLog[f].writes) <= 1
        /\ \A k \in 1..Len(ioLog[f].writes) : ioLog[f].writes[k] = Producer(f)
        /\ Len(ioLog[f].deletes) <= 1
        /\ \A k \in 1..Len(ioLog[f].deletes) :
              ioLog[f].deletes[k] = "controller"
        /\ ioLog[f].deletes # <<>> => started[Len(started)] = "cleanup"
        /\ pc = "done" => (Len(ioLog[f].writes) = 1 /\ Len(ioLog[f].deletes) = 1)

C10_TranslatePreservesTiming ==
    (tpc = "returned" /\ tsegs # <<>>) =>
        /\ Len(tout) = Len(tsegs)
        /\ \A i \in 1..Len(tsegs) :
              /\ DOMAIN tout[i] = {"start", "end", "text", "original"}
              /\ tout[i].start = tsegs[i].start
              /\ tout[i].end = tsegs[i].end
              /\ tout[i].original = tsegs[i].text

C10_Witness ==
    /\ tpc = "returned"
    /\ Len(tsegs) = 2 /\ tbatch = 1
    /\ tsegs[1].start # tsegs[2].start
    /\ tout[2].text # tsegs[2].text


\* C11 (as claimed): when the translation model fails during a run, the
\* run still reaches Done with exit status 0, the subtitle file is written
\* and every translated segment has text = original.
C11_FallbackReachesDone ==
    (translationFailed /\ pc \in Terminal) =>
        /\ pc = "done" /\ exitCode = 0
        /\ fs["output"].kind = "complete" /\ fs["output"].run = run
        /\ \A k \in 1..Len(loaded) : loaded[k].text = loaded[k].original

\* C12: when translate_segments fails for the whole input,
\* translate_with_fallback does not raise and returns one record per input
\* segment, in order, with the same start and end and with text = original
\* = the input text.
C12_FallbackKeepsOriginals ==
    (tpc # "call" /\ TranslateSegmentsRaises(tsegs, tbatch, tmodel)) =>
        /\ tpc = "returned"
        /\ Len(tout) = Len(tsegs)
        /\ \A i \in 1..Len(tsegs) :
              /\ tout[i].start = tsegs[i].start
              /\ tout[i].end = tsegs[i].end
              /\ tout[i].text = tsegs[i].text
              /\ tout[i].original = tsegs[i].text

C12_Witness ==
    /\ tpc = "returned" /\ tmodel = "broken"
    /\ Len(tsegs) = 2 /\ tout[2].text = tsegs[2].text
    /\ tsegs[2].text = <<" ">>


\* C13: serializing an empty list raises for srt and for smi and leaves the
\* destination as it was: neither created nor modified.
C13_EmptyListFails ==
    (spc # "call" /\ ssegs = <<>> /\ Lower(sformat) \in SupportedFormats) =>
        /\ spc = "raised"
        /\ sresult.error # "none"
        /\ sresult.dest = sdest

C13_Witness ==
    /\ spc = "raised" /\ ssegs = <<>> /\ sformat = "smi"
    /\ Exists(sdest) /\ sresult.dest = sdest

\* C14: a format other than srt and smi raises an unsupported-format error
\* whose message lists srt and smi, and no file is left at the destination.
C14_UnsupportedFormat ==
    (spc # "call" /\ Lower(sformat) \notin {"srt", "smi"}) =>
        /\ spc = "raised"
        /\ sresult.error = "ValueError"
        /\ sresult.reason = "unsupported"
        /\ sresult.formats = {"srt", "smi"}
        /\ sresult.dest = sdest

C14_Witness ==
    /\ spc = "raised" /\ sformat = "xml" /\ Len(ssegs) = 2
    /\ sdest = Absent /\ sresult.dest = Absent

\* reads an SRT file back: the first line of every block, blocks being
\* separated by blank lines (number, timing, text lines up to a blank line)
RECURSIVE ParseSrtIndices(_, _)
ParseSrtIndices(lines, state) ==
    IF lines = <<>> THEN <<>>
    ELSE LET h == Head(lines)
             blank == h.kind = "text" /\ h.v = <<>>
         IN  CASE state = "index" ->
                    IF blank THEN ParseSrtIndices(Tail(lines), "index")
                    ELSE <<h>> \o ParseSrtIndices(Tail(lines), "timing")
               [] state = "timing" -> ParseSrtIndices(Tail(lines), "text")
               [] OTHER ->
                    IF blank THEN ParseSrtIndices(Tail(lines), "index")
                    ELSE ParseSrtIndices(Tail(lines), "text")

\* the lines of the file written by the call
WrittenLines == sresult.dest.data.lines

\* C15: the SRT output of n segments has exactly n blocks whose index lines
\* are 1, 2, ..., n, in input order, whatever the timings are.
C15_SrtIndicesSequential ==
    (spc = "returned" /\ Lower(sformat) = "srt") =>
        LET idx == ParseSrtIndices(WrittenLines, "index")
        IN  /\ Len(idx) = Len(ssegs)
            /\ \A k \in 1..Len(ssegs) :
                  /\ idx[k].kind = "index" /\ idx[k].v = k
                  /\ WrittenLines[4 * (k - 1) + 1] = idx[k]
                  /\ WrittenLines[4 * (k - 1) + 3].v = Strip(ssegs[k].text)

C15_Witness ==
    /\ spc = "returned" /\ sformat = "srt" /\ Len(ssegs) = 2
    /\ ssegs[1].start > ssegs[2].end
    /\ ssegs[1].text = <<" ">> /\ ssegs[2].text = <<"a">>
    /\ WrittenLines[5].v = 2

\* the timing line of the k-th block of an SRT file
TimingOf(k) == WrittenLines[4 * (k - 1) + 2].v

\* C16 (as claimed): the scenario's three segments give three numbered
\* blocks with timings 00:00:00,000 --> 00:00:01,200, 00:00:01,200 -->
\* 00:00:02,500, 00:00:02,500 --> 00:00:04,000 and texts A, B, C; and a time
\* that is a whole number of milliseconds is printed with that millisecond.
C16_ScenarioTimings ==
    (spc = "returned" /\ Lower(sformat) = "srt") =>
        /\ ssegs = ScenarioSegments =>
              WrittenLines =
                << Line("index", 1),
                   Line("timing", [start |-> Stamp(0, 0, 0, 0),
                                   end |-> Stamp(0, 0, 1, 200)]),
                   Line("text", <<"A">>), BlankLine,
                   Line("index", 2),
                   Line("timing", [start |-> Stamp(0, 0, 1, 200),
                                   end |-> Stamp(0, 0, 2, 500)]),
                   Line("text", <<"B">>), BlankLine,
                   Line("index", 3),
                   Line("timing", [start |-> Stamp(0, 0, 2, 500),
                                   end |-> Stamp(0, 0, 4, 0)]),
                   Line("text", <<"C">>), BlankLine >>
        /\ \A k \in 1..Len(ssegs) :
              /\ ssegs[k].start % UsPerMs = 0 =>
                    TimingOf(k).start.millis
                        = (ssegs[k].start \div UsPerMs) % 1000
              /\ ssegs[k].end % UsPerMs = 0 =>
                    TimingOf(k).end.millis = (ssegs[k].end \div UsPerMs) % 1000

\* C17 (as claimed): the milliseconds field of an SRT timestamp is the
\* fractional second rounded to the nearest millisecond.
C17_SrtMillisRounded ==
    (spc = "returned" /\ Lower(sformat) = "srt") =>
        \A k \in 1..Len(ssegs) :
            /\ TimingOf(k).start.millis = RoundMs(ssegs[k].start % UsPerSecond)
            /\ TimingOf(k).end.millis = RoundMs(ssegs[k].end % UsPerSecond)

\* the seven lines the claim describes for one segment
RoundedSmiBlock(segment) ==
    << Line("sync", RoundMs(segment.start)),
       Line("p_open", "KRCC"),
       Line("text", Strip(segment.text)),
       Line("p_close", "KRCC"),
       Line("sync", RoundMs(segment.end)),
       Line("placeholder", "nbsp"),
       BlankLine >>

\* C18 (as claimed): the SMI output is the header, then for each segment in
\* order a block opening at round(start*1000) ms with the trimmed text and a
\* block at round(end*1000) ms with the placeholder, then the footer; n
\* segments give 2n SYNC blocks.
C18_SmiBlocksRounded ==
    (spc = "returned" /\ Lower(sformat) = "smi") =>
        /\ Len(WrittenLines) = SmiHeaderLines + 7 * Len(ssegs) + SmiFooterLines
        /\ SubSeq(WrittenLines, 1, SmiHeaderLines) = SmiHeader
        /\ \A k \in 1..Len(ssegs) :
              SubSeq(WrittenLines, SmiHeaderLines + 7 * (k - 1) + 1,
                     SmiHeaderLines + 7 * k) = RoundedSmiBlock(ssegs[k])
        /\ SubSeq(WrittenLines, SmiHeaderLines + 7 * Len(ssegs) + 1,
                  Len(WrittenLines)) = SmiFooter
        /\ Cardinality({i \in 1..Len(WrittenLines) :
                           WrittenLines[i].kind = "sync"}) = 2 * Len(ssegs)

\* C19 (as claimed): every cue written to the subtitle file has non-empty
\* text after trimming.
C19_NoEmptyCue ==
    fs["output"].kind = "complete" =>
        \A k \in 1..Len(fs["output"].data.cues) :
            fs["output"].data.cues[k].text # <<>>

\* C20 (as claimed): a record lacking start, end or text makes generate_srt
\* and generate_smi fail with the documented ValueError, not with the
\* IOError of a failed write.
C20_MissingFieldIsValueError ==
    (spc = "raised" /\ Lower(sformat) \in SupportedFormats
        /\ FirstInvalid(ssegs) # 0) =>
        sresult.error = "ValueError"


\* a worker process has been started and has not exited yet
WorkerAlive == wpc \notin {"off", "exited"}

\* C21: a worker is alive only while the controller waits for it in the
\* stage that started it (so never two workers at once), and while a worker
\* is alive the controller takes no step: its position, its loaded data, the
\* stages it started and its exit status do not change and it reads no
\* snapshot.
C21_ControllerBlocksOnWorker ==
    /\ [](WorkerAlive =>
            /\ pc \in {"waitTranscribe", "waitTranslate"}
            /\ started[Len(started)] =
                   (IF pc = "waitTranscribe" THEN "transcribe" ELSE "translate")
            /\ (wpc \in {"load", "writeEmpty"} => pc = "waitTranslate"))
    /\ [][WorkerAlive =>
            /\ pc' = pc /\ run' = run /\ loaded' = loaded
            /\ started' = started /\ exitCode' = exitCode
            /\ \A f \in Snapshots :
                  ioLog'[f].reads # ioLog[f].reads =>
                      ioLog'[f].reads[Len(ioLog'[f].reads)] # "controller"]_vars

C21_Witness ==
    /\ pc = "waitTranslate" /\ wpc = "compute"
    /\ started = <<"extract", "transcribe", "translate">>
    /\ ioLog["transcription"].reads = <<"controller", "translate_worker">>


\* C22: when the output file exists and the answer at the prompt is anything
\* but y or Y, the invocation ends cancelled with exit status 0, no stage
\* has started, and the step changes no file and does not create temp/.
C22_DeclineExitsZero ==
    /\ [](answer \notin {"none", "y", "Y"} =>
            /\ pc = "cancelled" /\ exitCode = 0 /\ started = <<>>
            /\ Exists(fs["output"]))
    /\ [][(run' # run /\ answer' \notin {"none", "y", "Y"}) =>
            /\ Exists(fs["output"])
            /\ pc' = "cancelled" /\ exitCode' = 0 /\ started' = <<>>
            /\ fs' = fs /\ tempDir' = tempDir
            /\ wpc' = "off"]_vars

C22_Witness ==
    /\ pc = "cancelled" /\ exitCode = 0 /\ answer = ""
    /\ fs["output"].kind = "complete" /\ fs["output"].run = 1 /\ run = 2


\* HH*3600 + MM*60 + SS + mmm/1000, in tenths of a microsecond
ParseTimestampSrt(stamp) ==
    (((stamp.hours * 3600 + stamp.minutes * 60 + stamp.secs) * 1000)
        + stamp.millis) * TenthsPerMs

Distance(a, b) == IF a >= b THEN a - b ELSE b - a

\* C23 (as claimed): parsing the formatted SRT timestamp back gives a time
\* within 1 millisecond of the seconds that were formatted.
C23_RoundTripWithin1ms ==
    fpc = "returned" =>
        Distance(ParseTimestampSrt(fstamp), fseconds) <= TenthsPerMs


CeilDiv(n, b) == (n + b - 1) \div b

RECURSIVE Flatten(_)
Flatten(seqs) == IF seqs = <<>> THEN <<>> ELSE Head(seqs) \o Flatten(Tail(seqs))

\* C24: with batch size b >= 1 the loop makes ceil(n/b) iterations; the j-th
\* batch is segments[(j-1)b : jb], so the batches are consecutive, hold at
\* most b records and together hold every segment exactly once; the output
\* is the records of the batches in that order, one per segment, in input
\* order.
C24_BatchesConsecutiveInOrder ==
    (tpc = "returned" /\ tbatch >= 1) =>
        LET n == Len(tsegs)
            bs == Batches(tsegs, tbatch)
        IN  /\ Len(bs) = CeilDiv(n, tbatch)
            /\ \A j \in 1..Len(bs) :
                  /\ bs[j] = SubSeq(tsegs, (j - 1) * tbatch + 1,
                                    Min(j * tbatch, n))
                  /\ Len(bs[j]) \in 1..tbatch
            /\ Flatten(bs) = tsegs
            /\ tout = Flatten([j \in 1..Len(bs) |->
                          CombineBatch(bs[j],
                              Generate(tmodel, [k \in 1..Len(bs[j]) |->
                                                   bs[j][k].text]))])
            /\ Len(tout) = n
            /\ \A k \in 1..n :
                  /\ tout[k].start = tsegs[k].start
                  /\ tout[k].end = tsegs[k].end
                  /\ tout[k].original = tsegs[k].text

C24_Witness ==
    /\ tpc = "returned" /\ tsegs = LongSegments /\ tbatch = 2
    /\ Len(Batches(tsegs, tbatch)) = 3
    /\ Len(tout) = 5 /\ tout[5].start = 4


\* the transcription snapshot holds zero segments
EmptyTranscription ==
    fs["transcription"].kind = "complete" /\ fs["transcription"].data = <<>>

\* C25: with a transcription snapshot of zero segments the translation
\* worker goes from loading the snapshot straight to writing [] (it never
\* builds the Translator), a completed write of [] is followed by exit
\* status 0 and there is no other way to exit 0, and
\* once the worker has exited 0 the run can only fail at serialization: exit
\* status 1, never Done, and the subtitle file is not written by this run.
C25_EmptyTranscriptionFailsAtSerialize ==
    /\ [][(pc = "waitTranslate" /\ wpc = "load" /\ EmptyTranscription
             /\ wpc' # wpc) => wpc' = "writeEmpty"]_vars
    /\ [][(wpc = "writeEmpty" /\ wpc' # wpc) =>
             /\ wpc' = "exited"
             /\ ((ioLog'["translation"].writes # ioLog["translation"].writes
                    /\ fs'["translation"].kind = "complete") =>
                    /\ fs'["translation"] = Complete(run, <<>>)
                    /\ wrc' = 0)
             /\ (wrc' = 0 => fs'["translation"] = Complete(run, <<>>))
             /\ ~translationFailed']_vars
    /\ []((pc \notin {"idle", "cancelled", "rejected"}
             /\ EmptyTranscription /\ stageResult["translate"] = "ok") =>
             /\ fs["translation"] = Complete(run, <<>>)
             /\ pc \in {"waitTranslate", "serialize", "failed"}
             /\ fs["output"].run # run
             /\ (pc = "failed" =>
                    /\ exitCode = 1
                    /\ stageResult["serialize"] = "fail"
                    /\ started[Len(started)] = "serialize"))

C25_Witness ==
    /\ pc = "failed" /\ exitCode = 1 /\ EmptyTranscription
    /\ stageResult["translate"] = "ok" /\ stageResult["serialize"] = "fail"
    /\ fs["translation"] = Complete(run, <<>>) /\ loaded = <<>>
    /\ ~Exists(fs["output"]) /\ ~translationFailed


\* C26: when some record of the list lacks a field, generate_srt and
\* generate_smi raise and the destination is exactly what it was before the
\* call (absent stays absent, an existing file keeps its content); a file
\* the call did write holds the blocks of all the segments.
C26_InvalidSegmentLeavesDestination ==
    (spc # "call" /\ Lower(sformat) \in SupportedFormats) =>
        /\ FirstInvalid(ssegs) # 0 =>
              spc = "raised" /\ sresult.dest = sdest
        /\ spc = "returned" =>
              Len(sresult.dest.data.lines) =
                  IF Lower(sformat) = "srt" THEN 4 * Len(ssegs)
                  ELSE SmiHeaderLines + 7 * Len(ssegs) + SmiFooterLines

C26_Witness ==
    /\ spc = "raised" /\ sformat = "srt" /\ Len(ssegs) = 2
    /\ HasFields(ssegs[1]) /\ ~HasFields(ssegs[2])
    /\ sdest = OldFile /\ sresult.dest = sdest


Last(seq) == seq[Len(seq)]

\* C27: whenever the controller reads a snapshot, the worker of the current
\* run has exited 0 and the file is complete, was written in the current
\* run and was last written by that worker; the data the controller hands
\* to the serializer is the data of that file.
C27_NoStaleSnapshot ==
    [][\A f \in Snapshots :
          (Len(ioLog'[f].reads) > Len(ioLog[f].reads)
              /\ Last(ioLog'[f].reads) = "controller") =>
              /\ wrc = 0
              /\ fs[f].kind = "complete" /\ fs[f].run = run
              /\ ioLog[f].writes # <<>>
              /\ Last(ioLog[f].writes) = Producer(f)
              /\ (f = "translation" => loaded' = fs[f].data)]_vars

C27_Witness ==
    /\ run = 2 /\ pc = "spawnTranslate"
    /\ ioLog["transcription"].reads = <<"controller">>
    /\ fs["transcription"].kind = "complete" /\ fs["transcription"].run = 2
    /\ fs["translation"].kind = "complete" /\ fs["translation"].run = 1


\* the temporary file an invocation at position c still has to read
Needs(c) ==
    CASE c = "transcribe" -> {"audio"}
      [] c = "translate" -> {"transcription"}
      [] c = "load" -> {"translation"}
      [] OTHER -> {}

\* C28 (as claimed): with several invocations running at the same time in
\* one directory, the subtitle file of each is built from its own input,
\* and no invocation overwrites or deletes a temporary file that another
\* one still has to read.
C28_ConcurrentRunsIsolated ==
    /\ [](\A p \in Procs : cout[p] # 0 => cout[p] = p)
    /\ [][\A p \in Procs, q \in Procs :
             (p # q /\ cpc'[p] # cpc[p]) =>
                 \A f \in Needs(cpc[q]) : cfile'[f] = cfile[f]]_vars


\* C29 (as claimed): for a non-empty list and any integer batch size,
\* translate_segments either raises or returns exactly one record per input
\* segment.
C29_NeverFewerRecords ==
    (tpc = "returned" /\ tsegs # <<>>) => Len(tout) = Len(tsegs)


\* C30: the output file changes only in the serialization step; so when the
\* file existed, the user confirmed, and the run failed in extraction,
\* transcription or translation, the file is still the one the earlier run
\* wrote.
C30_OutputOnlyChangedBySerialize ==
    /\ [][(fs'["output"].kind # fs["output"].kind
             \/ fs'["output"].run # fs["output"].run) =>
             /\ pc = "serialize"
             /\ started' = Append(started, "serialize")]_vars
    /\ []((pc = "failed" /\ answer \in {"y", "Y"}
             /\ stageResult["serialize"] = "none") =>
             /\ Exists(fs["output"])
             /\ fs["output"].run < run)

C30_Witness ==
    /\ run = 2 /\ pc = "failed" /\ answer = "Y"
    /\ stageResult["translate"] = "fail"
    /\ stageResult["serialize"] = "none"
    /\ fs["output"].kind = "complete" /\ fs["output"].run = 1

====
